---- MODULE Spec2Model ----
(***************************************************************************)
(* xsh: fan one shell command out to a list of hosts over ssh.             *)
(*                                                                         *)
(* Three specifications over one set of variables:                           *)
(*   Spec      the run started by main: NewPlan, then Plan.OpenConns, then *)
(*             main's handling of its result (src/main.go, src/run.go).    *)
(*   SpecExec  Plan.Execute called on a Plan whose host list holds n       *)
(*             handles with live sessions, while time passes: the receiver *)
(*             of Execute is its input, drawn from bounded sets.           *)
(*   SpecCancel  the same call of Execute, with Plan.Close callable and    *)
(*             the Cancellation Listener (listenForClose) running.         *)
(***************************************************************************)
EXTENDS Integers, Sequences, FiniteSets, TLC

VARIABLES
    PlainHosts,     \* Plan.PlainHosts: the raw host tokens
    ParallelLimit,  \* Plan.ParallelLimit: 0 models the nil pointer
    hosts,          \* Plan.hosts: sequence of Host handles
    stop,           \* Plan.stop: "nil", "open" or "closed"
    proc,           \* the process: "running", "panicked" or "exited"
    ocpc,           \* position inside OpenConns / main
    oci,            \* OpenConns' loop index into PlainHosts
    parts,          \* OpenConns' local parts
    h,              \* OpenConns' local h (a Host)
    session,        \* OpenConns' local session (a session id, 0 = none)
    ocErr,          \* the error OpenConns returned
    conns,          \* per host index: status of the ssh connection
    sess,           \* per session id: the transport's session
    dialed,         \* addresses handed to ssh.Dial, in order
    listener,       \* listenForClose: "none", "waiting", "closing", "done"
    lk,             \* listenForClose's loop index
    closeCalls,     \* number of Plan.Close calls made so far
    expc,           \* position inside Execute
    exj,            \* the dispatch loop's index into p.hosts
    wg,             \* the WaitGroup counter (sync.WaitGroup / errgroup's)
    sem,            \* errgroup's semaphore: tokens held
    tasks,          \* per host index: the per-host goroutine
    Successes,      \* Result.Successes
    Failures,       \* Result.Failures
    mu,             \* Result.mu: 0 free, else the index of the holder
    execErr,        \* the error Execute returned
    now,            \* the wall clock, in ticks
    ctxDone,        \* main's ctx: TRUE once the timeout deadline has expired
    mpc,            \* Result.MarshalJSON: "idle", "running", "overflow", "returned"
    mdepth,         \* Result.MarshalJSON: frames of the call on the stack
    SSHKeyPath,     \* Plan.SSHKeyPath: <<>> when no key file is given
    fsys,           \* the file system getSigners reads
    sgn             \* what the call of getSigners did

vars == <<PlainHosts, ParallelLimit, hosts, stop, proc, ocpc, oci, parts, h,
          session, ocErr, conns, sess, dialed, listener, lk, closeCalls,
          expc, exj, wg, sem, tasks, Successes, Failures, mu, execErr, now,
          ctxDone, mpc, mdepth, SSHKeyPath, fsys, sgn>>

planVars == <<PlainHosts, ParallelLimit>>
ocVars   == <<ocpc, oci, parts, h, session, ocErr, conns, dialed>>
auxVars  == <<ctxDone, mpc, mdepth, SSHKeyPath, fsys, sgn>>
exVars   == <<expc, exj, wg, sem, tasks, Successes, Failures, mu, execErr>>

----------------------------------------------------------------------------
(* Bounds *)

MaxHosts == 2
MaxLimit == 2
MaxClock == 1
MaxCloseCalls == 2
(* frames of MarshalJSON the goroutine's stack holds before the runtime
   gives up *)
MaxStack == 3
MaxEntries == 2

(* Clock ticks per second: time.RFC3339 prints whole seconds *)
TicksPerSecond == 2

----------------------------------------------------------------------------
(* Values *)

NoErr == "nil"
ErrNoHosts == "no hosts specified"
ErrInvalidHost == "invalid host"
ErrSigners == "failed to get signers"
ErrDial == "failed to dial SSH"
ErrSession == "failed to start ssh session"
ErrPty == "failed to set request terminal"
ErrShell == "failed to start shell"

(* Host tokens are sequences of characters *)
Tokens ==
    { <<"u", "@", "h">>, <<"v", "@", "g">>, <<"h">>,
      <<"a", "@", "b", "@", "c">>, <<"u", "@">>, <<"@", "h">> }

SeqsUpTo(S, n) == UNION { [1..k -> S] : k \in 0..n }

(* strings.Split(s, sep) for a one-character sep *)
RECURSIVE Split(_, _)
Split(s, sep) ==
    IF \A k \in 1..Len(s) : s[k] # sep
    THEN <<s>>
    ELSE LET k == CHOOSE x \in 1..Len(s) :
                    s[x] = sep /\ \A y \in 1..(x - 1) : s[y] # sep
         IN  <<SubSeq(s, 1, k - 1)>> \o Split(SubSeq(s, k + 1, Len(s)), sep)

(* the zero Host, and the nil *ssh.Session *)
NilSession == 0
NoHost == [user |-> <<>>, host |-> <<>>, session |-> NilSession]

NoSess == [st |-> "none", pty |-> FALSE, shell |-> FALSE, closes |-> 0]
LiveSess == [st |-> "open", pty |-> TRUE, shell |-> TRUE, closes |-> 0]

Idx == 1..MaxHosts

NoTask == [pc |-> "none", start |-> 0, end |-> 0, out |-> "", err |-> NoErr,
           snap |-> <<>>]

----------------------------------------------------------------------------
(* The run started by main: NewPlan, then Plan.OpenConns *)

(* NewPlan: the Plan as created from the flags; whether it makes the stop
   channel is not decided by the sources at hand, so both are admitted *)
InitPlan ==
    /\ PlainHosts \in SeqsUpTo(Tokens, MaxHosts)
    /\ ParallelLimit \in 0..MaxLimit
    /\ hosts = <<>>
    /\ stop \in {"nil", "open"}

(* no key file given, nothing on disk looked at, getSigners not yet called *)
NoFS == [root |-> "missing", content |-> "key", entries |-> <<>>]
NoSgn == [outcome |-> "none", err |-> NoErr, signers |-> <<>>, parsed |-> <<>>]

InitAux ==
    /\ ctxDone = FALSE
    /\ mpc = "idle"
    /\ mdepth = 0
    /\ SSHKeyPath = <<>>
    /\ fsys = NoFS
    /\ sgn = NoSgn

InitExecIdle ==
    /\ expc = "idle"
    /\ exj = 0
    /\ wg = 0
    /\ sem = 0
    /\ tasks = [i \in Idx |-> NoTask]
    /\ Successes = <<>>
    /\ Failures = <<>>
    /\ mu = 0
    /\ execErr = NoErr
    /\ now = 0

ErrReadKey == "failed to read key file"
ErrNoSSHKeysFound == "no ssh keys found in default directory"

(* file names, cut at their dots *)
NameConfig == <<"config">>
NameKnownHosts == <<"known_hosts">>
NameKnownHostsOld == <<"known_hosts", ".old">>
NamePub == <<"id_rsa", ".pub">>
NamePubBak == <<"id_rsa", ".pub", ".bak">>
NameKey == <<"id_rsa">>

(* Lstat("~/.ssh/").Name() *)
RootName == <<".ssh">>

(* ignoreFiles *)
IgnoreFiles == {NameConfig, NameKnownHostsOld, NameKnownHosts}

(* publicKeyRegex: \.pub$ *)
PublicKeyMatch(name) == Len(name) > 0 /\ name[Len(name)] = ".pub"

(* what a path holds: a private key, something that does not parse as one,
   something that cannot be read, or a directory (os.ReadFile fails on it) *)
Contents == {"key", "junk", "unreadable"}

FileEntries ==
    [name : {NameConfig, NameKnownHosts, NameKnownHostsOld, NamePub,
             NamePubBak, NameKey},
     content : Contents]

(* the file systems with at most n entries in the default directory *)
FsInputs(n) ==
    [root : {"missing", "dir", "file"},
     content : Contents,
     entries : SeqsUpTo(FileEntries, n)]

(* os.ReadFile and ssh.ParsePrivateKey on one path; acc carries the signers
   collected and the names handed to ssh.ParsePrivateKey *)
ReadAndParse(e, acc) ==
    IF e.content \in {"unreadable", "dir"}
    THEN [acc EXCEPT !.outcome = "err", !.err = ErrReadKey]
    ELSE IF e.content = "junk"
    THEN [acc EXCEPT !.outcome = "fatal",
                     !.parsed = Append(acc.parsed, e.name)]
    ELSE [acc EXCEPT !.signers = Append(acc.signers, e.name),
                     !.parsed = Append(acc.parsed, e.name)]

(* the walk function of getSigners on one visited path *)
Visit(e, acc) ==
    IF e.name \in IgnoreFiles \/ PublicKeyMatch(e.name)
    THEN acc
    ELSE ReadAndParse(e, acc)

(* filepath.Walk: the walk function is called on the paths in order, and the
   walk ends at the first call that returns an error (or ends the process) *)
RECURSIVE WalkPaths(_, _)
WalkPaths(es, acc) ==
    IF Len(es) = 0 \/ acc.outcome # "ok"
    THEN acc
    ELSE WalkPaths(Tail(es), Visit(Head(es), acc))

(* the paths filepath.Walk(defaultSSHConfigDir, ...) visits: the root itself
   first, then, if it is a directory, its entries *)
WalkOrder(fs) ==
    IF fs.root = "dir"
    THEN <<[name |-> RootName, content |-> "dir"]>> \o fs.entries
    ELSE <<[name |-> RootName, content |-> fs.content]>>

ScanStart == [outcome |-> "ok", err |-> NoErr, signers |-> <<>>,
              parsed |-> <<>>]

(* util.IsStringEmpty(keyFile) *)
IsStringEmpty(str) == Len(str) = 0

(* Plan.getSigners(keyFile) *)
GetSignersOf(keyFile, fs) ==
    IF ~IsStringEmpty(keyFile)
    THEN ReadAndParse([name |-> keyFile, content |-> fs.content], ScanStart)
    ELSE IF fs.root = "missing"
    THEN [ScanStart EXCEPT !.outcome = "panic"]
    ELSE LET w == WalkPaths(WalkOrder(fs), ScanStart)
         IN  IF w.outcome # "ok"
             THEN w
             ELSE IF Len(w.signers) = 0
             THEN [w EXCEPT !.outcome = "err", !.err = ErrNoSSHKeysFound]
             ELSE w

(* the key paths a run is given: none, or a file *)
KeyPaths == { <<>>, <<"k">> }

(* the Plan's key path and the file system, with the default directory
   holding up to n entries *)
InitKeys(n) ==
    /\ SSHKeyPath \in KeyPaths
    /\ fsys \in FsInputs(n)
    /\ sgn = NoSgn
    /\ ctxDone = FALSE
    /\ mpc = "idle"
    /\ mdepth = 0

(* main before OpenConns is called *)
InitRun ==
    /\ proc = "running"
    /\ ocpc = "entry"
    /\ oci = 0
    /\ parts = <<>>
    /\ h = NoHost
    /\ session = NilSession
    /\ ocErr = NoErr
    /\ conns = [i \in Idx |-> "none"]
    /\ sess = [i \in Idx |-> NoSess]
    /\ dialed = <<>>
    /\ listener = "none"
    /\ lk = 0
    /\ closeCalls = 0
    /\ InitExecIdle

Init ==
    /\ InitPlan
    /\ InitRun
    /\ InitKeys(0)

(* return err from OpenConns *)
OcReturn(e) ==
    /\ ocErr' = e
    /\ ocpc' = "returned"

(* mutant: the empty list is not looked for *)
NoHostsNever(ph) == FALSE

(* len(p.PlainHosts) == 0 *)
NoHosts(ph) == Len(ph) = 0

(* if len(p.PlainHosts) == 0 { return ErrNoHosts }; the loop's first
   iteration; a loop over no token falls through to
   `go p.listenForClose(); return nil` *)
OpenConnsEntry ==
    /\ proc = "running"
    /\ ocpc = "entry"
    /\ IF NoHosts(PlainHosts)
       THEN /\ OcReturn(ErrNoHosts)
            /\ UNCHANGED <<oci, listener>>
       ELSE IF Len(PlainHosts) = 0
       THEN /\ listener' = "waiting"
            /\ OcReturn(NoErr)
            /\ oci' = oci
       ELSE /\ ocpc' = "parse"
            /\ oci' = 1
            /\ UNCHANGED <<ocErr, listener>>
    /\ UNCHANGED <<planVars, auxVars, hosts, stop, proc, parts, h, session,
                   conns, sess, dialed, lk, closeCalls, exVars, now>>

(* len(parts) != 2 *)
ValidParts(ps) == Len(ps) = 2

(* parts := strings.Split(host, "@"); if len(parts) != 2 { return ... } *)
ParseHost ==
    /\ proc = "running"
    /\ ocpc = "parse"
    /\ parts' = Split(PlainHosts[oci], "@")
    /\ IF ~ValidParts(parts')
       THEN OcReturn(ErrInvalidHost)
       ELSE /\ ocpc' = "signers"
            /\ ocErr' = ocErr
    /\ UNCHANGED <<planVars, auxVars, hosts, stop, proc, oci, h, session, conns, sess,
                   dialed, listener, lk, closeCalls, exVars, now>>

(* what getSigners can do: return signers, return an error, end the process
   with log.Fatalf, or panic *)
SignerOutcomes == {"ok", "err", "fatal", "panic"}

(* signers, err := p.getSigners(p.SSHKeyPath); h := Host{user, host} *)
GetSigners ==
    /\ proc = "running"
    /\ ocpc = "signers"
    /\ sgn' = GetSignersOf(SSHKeyPath, fsys)
    /\ CASE sgn'.outcome = "ok" ->
               /\ h' = [user |-> parts[1], host |-> parts[2],
                        session |-> NilSession]
               /\ ocpc' = "dial"
               /\ UNCHANGED <<ocErr, proc>>
         [] sgn'.outcome = "err" ->
               /\ OcReturn(ErrSigners)
               /\ UNCHANGED <<h, proc>>
         [] sgn'.outcome = "fatal" ->
               /\ proc' = "exited"
               /\ UNCHANGED <<h, ocpc, ocErr>>
         [] sgn'.outcome = "panic" ->
               /\ proc' = "panicked"
               /\ UNCHANGED <<h, ocpc, ocErr>>
    /\ UNCHANGED <<planVars, ctxDone, mpc, mdepth, SSHKeyPath, fsys, hosts,
                   stop, oci, parts, session, conns, sess, dialed, listener,
                   lk, closeCalls, exVars, now>>

(* sshConn, err := ssh.Dial("tcp", h.host, cfg) *)
Dial ==
    /\ proc = "running"
    /\ ocpc = "dial"
    /\ dialed' = Append(dialed, h.host)
    /\ \E ok \in BOOLEAN :
          IF ok
          THEN /\ conns' = [conns EXCEPT ![oci] = "open"]
               /\ ocpc' = "session"
               /\ ocErr' = ocErr
          ELSE /\ OcReturn(ErrDial)
               /\ conns' = conns
    /\ UNCHANGED <<planVars, auxVars, hosts, stop, proc, oci, parts, h, session, sess,
                   listener, lk, closeCalls, exVars, now>>

(* session, err := sshConn.NewSession() *)
NewSession ==
    /\ proc = "running"
    /\ ocpc = "session"
    /\ \E ok \in BOOLEAN :
          IF ok
          THEN /\ session' = oci
               /\ sess' = [sess EXCEPT ![oci].st = "open"]
               /\ ocpc' = "setup"
               /\ ocErr' = ocErr
          ELSE /\ OcReturn(ErrSession)
               /\ UNCHANGED <<session, sess>>
    /\ UNCHANGED <<planVars, auxVars, hosts, stop, proc, oci, parts, h, conns, dialed,
                   listener, lk, closeCalls, exVars, now>>

(* p.hosts = append(p.hosts): append is given no element *)
AppendHosts(hs, hh) == hs

(* mutant: RequestPty and Shell are called on the local session, so the
   loop goes on to the next token *)
SetupReceiverLocal == session

(* the receiver of RequestPty and Shell: h.session *)
SetupReceiver == h.session

(* lines 113-134: RequestPty and Shell on h.session, h.session = session,
   the append, the next iteration or `go p.listenForClose(); return nil`.
   A method of *ssh.Session called on the nil pointer dereferences it: panic *)
Setup ==
    /\ proc = "running"
    /\ ocpc = "setup"
    /\ IF SetupReceiver = NilSession
       THEN /\ proc' = "panicked"
            /\ UNCHANGED <<hosts, oci, h, sess, ocpc, ocErr, listener>>
       ELSE \E ptyOk \in BOOLEAN, shellOk \in BOOLEAN :
               /\ proc' = proc
               /\ IF ~ptyOk
                  THEN /\ OcReturn(ErrPty)
                       /\ UNCHANGED <<hosts, oci, h, sess, listener>>
                  ELSE IF ~shellOk
                  THEN /\ OcReturn(ErrShell)
                       /\ sess' = [sess EXCEPT ![SetupReceiver].pty = TRUE]
                       /\ UNCHANGED <<hosts, oci, h, listener>>
                  ELSE /\ sess' = [sess EXCEPT ![SetupReceiver].pty = TRUE,
                                               ![SetupReceiver].shell = TRUE]
                       /\ h' = [h EXCEPT !.session = session]
                       /\ hosts' = AppendHosts(hosts, h')
                       /\ IF oci < Len(PlainHosts)
                          THEN /\ oci' = oci + 1
                               /\ ocpc' = "parse"
                               /\ UNCHANGED <<ocErr, listener>>
                          ELSE /\ listener' = "waiting"
                               /\ OcReturn(NoErr)
                               /\ oci' = oci
    /\ UNCHANGED <<planVars, auxVars, stop, parts, session, conns, dialed, lk,
                   closeCalls, exVars, now>>

(* main: err = p.OpenConns(); if err != nil { return err }; p.Execute(ctx) *)
MainAfterOpenConns ==
    /\ proc = "running"
    /\ ocpc = "returned"
    /\ expc = "idle"
    /\ IF ocErr # NoErr
       THEN /\ proc' = "exited"
            /\ expc' = expc
       ELSE /\ expc' = "entry"
            /\ proc' = proc
    /\ UNCHANGED <<planVars, auxVars, hosts, stop, ocVars, sess, listener, lk,
                   closeCalls, exj, wg, sem, tasks, Successes, Failures, mu,
                   execErr, now>>

Next ==
    \/ OpenConnsEntry
    \/ ParseHost
    \/ GetSigners
    \/ Dial
    \/ NewSession
    \/ Setup
    \/ MainAfterOpenConns

Spec == Init /\ [][Next]_vars

(* the same run with one well-formed host, over every key path and every
   file system with up to MaxEntries entries in the default directory *)
InitSigners ==
    /\ PlainHosts = << <<"u", "@", "h">> >>
    /\ ParallelLimit = 0
    /\ hosts = <<>>
    /\ stop = "nil"
    /\ InitRun
    /\ InitKeys(MaxEntries)

SpecSigners == InitSigners /\ [][Next]_vars

----------------------------------------------------------------------------
(* Plan.Execute, its per-host goroutines, Result.AddResult, Plan.Close and
   listenForClose, on a Plan whose host list holds n live handles *)

(* the address of the i-th handle: h1, h2, ... *)
AddrOf(i) == <<"h", ToString(i)>>

(* what session.Output can return: (output, error) *)
OutputResults ==
    { [out |-> "ok", err |-> NoErr],
      [out |-> "", err |-> "exit status 1"] }

InitExec ==
    /\ \E n \in 0..MaxHosts :
          /\ PlainHosts = [i \in 1..n |-> <<"u", "@">> \o AddrOf(i)]
          /\ hosts = [i \in 1..n |->
                        [user |-> <<"u">>, host |-> AddrOf(i), session |-> i]]
          /\ conns = [i \in Idx |-> IF i <= n THEN "open" ELSE "none"]
          /\ sess = [i \in Idx |-> IF i <= n THEN LiveSess ELSE NoSess]
          /\ dialed = [i \in 1..n |-> AddrOf(i)]
          /\ oci = n
    /\ ParallelLimit \in 0..MaxLimit
    /\ stop \in {"nil", "open"}
    /\ proc = "running"
    /\ ocpc = "returned"
    /\ parts = <<>>
    /\ h = NoHost
    /\ session = NilSession
    /\ ocErr = NoErr
    /\ listener = "waiting"
    /\ lk = 0
    /\ closeCalls = 0
    /\ InitExecIdle
    /\ InitAux

(* time passes *)
Tick ==
    /\ proc = "running"
    /\ now < MaxClock
    /\ now' = now + 1
    /\ UNCHANGED <<planVars, auxVars, hosts, stop, proc, ocVars, sess, listener, lk,
                   closeCalls, exVars>>

(* result := &Result{}; if p.ParallelLimit != nil { executeErrG } else
   { executeWG }; errg.SetLimit of the limit *)
ExecuteEntry ==
    /\ proc = "running"
    /\ expc \in {"idle", "entry"}
    /\ Successes' = <<>>
    /\ Failures' = <<>>
    /\ mu' = 0
    /\ expc' = IF ParallelLimit # 0 THEN "errg" ELSE "wg"
    /\ exj' = 1
    /\ wg' = 0
    /\ sem' = 0
    /\ UNCHANGED <<planVars, auxVars, hosts, stop, proc, ocVars, sess, listener, lk,
                   closeCalls, tasks, execErr, now>>

(* the goroutine as launched: go func(session, host, result) *)
Launched == [NoTask EXCEPT !.pc = "ready"]

(* executeWG's loop body: wg.Add(1); go func(...) *)
DispatchWG ==
    /\ proc = "running"
    /\ expc = "wg"
    /\ exj <= Len(hosts)
    /\ wg' = wg + 1
    /\ tasks' = [tasks EXCEPT ![exj] = Launched]
    /\ exj' = exj + 1
    /\ UNCHANGED <<planVars, auxVars, hosts, stop, proc, ocVars, sess, listener, lk,
                   closeCalls, expc, sem, Successes, Failures, mu, execErr,
                   now>>

(* wg.Wait() returns once the counter is zero *)
WaitDone(counter) == counter = 0

(* executeWG: wg.Wait(); return nil *)
WaitWG ==
    /\ proc = "running"
    /\ expc = "wg"
    /\ exj > Len(hosts)
    /\ WaitDone(wg)
    /\ execErr' = NoErr
    /\ expc' = "returned"
    /\ UNCHANGED <<planVars, auxVars, hosts, stop, proc, ocVars, sess, listener, lk,
                   closeCalls, exj, wg, sem, tasks, Successes, Failures, mu,
                   now>>

(* mutant: errg.Go admits without looking at the tokens held *)
AdmitAlways(held, limit) == TRUE

(* mutant: Go lets one goroutine more than the limit in *)
AdmitOneMore(held, limit) == held <= limit

(* errg.Go blocks while the group holds `limit` tokens *)
Admit(held, limit) == held < limit

(* executeErrG's loop body: errg.Go(func() error {...}) *)
DispatchErrG ==
    /\ proc = "running"
    /\ expc = "errg"
    /\ exj <= Len(hosts)
    /\ Admit(sem, ParallelLimit)
    /\ sem' = sem + 1
    /\ wg' = wg + 1
    /\ tasks' = [tasks EXCEPT ![exj] = Launched]
    /\ exj' = exj + 1
    /\ UNCHANGED <<planVars, auxVars, hosts, stop, proc, ocVars, sess, listener, lk,
                   closeCalls, expc, Successes, Failures, mu, execErr, now>>

(* executeErrG after its loop: return nil (the group is not waited for) *)
ReturnErrG ==
    /\ proc = "running"
    /\ expc = "errg"
    /\ exj > Len(hosts)
    /\ execErr' = NoErr
    /\ expc' = "returned"
    /\ UNCHANGED <<planVars, auxVars, hosts, stop, proc, ocVars, sess, listener, lk,
                   closeCalls, exj, wg, sem, tasks, Successes, Failures, mu,
                   now>>

taskFrame == <<planVars, auxVars, hosts, stop, proc, ocVars, sess, listener, lk,
               closeCalls, expc, exj, execErr, now>>

(* start := time.Now(); the call session.Output(p.Command) begins *)
TaskStart(i) ==
    /\ proc = "running"
    /\ tasks[i].pc = "ready"
    /\ tasks' = [tasks EXCEPT ![i].start = now, ![i].pc = "output"]
    /\ UNCHANGED <<taskFrame, wg, sem, Successes, Failures, mu>>

(* mutant: the task closes its session once the command has run *)
SessClosedAfterOutput(ss, s) ==
    [ss EXCEPT ![s].st = "closed", ![s].closes = ss[s].closes + 1]

(* the sessions after a task's body: the goroutine calls Output on its
   session and nothing else *)
SessAfterOutput(ss, s) == ss

(* out, err := session.Output(p.Command) returns; the argument time.Now()
   of the call result.AddResult(start, time.Now(), host, out, err) *)
TaskOutput(i) ==
    /\ proc = "running"
    /\ tasks[i].pc = "output"
    /\ \E r \in OutputResults :
          tasks' = [tasks EXCEPT ![i].out = r.out, ![i].err = r.err,
                                 ![i].end = now, ![i].pc = "lock"]
    /\ sess' = SessAfterOutput(sess, hosts[i].session)
    /\ UNCHANGED <<planVars, auxVars, hosts, stop, proc, ocVars, listener, lk,
                   closeCalls, expc, exj, execErr, now, wg, sem, Successes,
                   Failures, mu>>

(* mutant: Lock returns whether or not the mutex is held *)
LockAlways(m) == TRUE

(* r.mu.Lock() returns only when the mutex is free *)
LockFree(m) == m = 0

(* mutant: no error is taken for a failure *)
IsFailureNever(err) == FALSE

(* if err != nil *)
IsFailure(err) == err # NoErr

(* r.mu.Lock(); result := res{...}; append reads the slice it extends:
   r.Failures if err != nil, else r.Successes *)
AddResultLock(i) ==
    /\ proc = "running"
    /\ tasks[i].pc = "lock"
    /\ LockFree(mu)
    /\ mu' = i
    /\ tasks' = [tasks EXCEPT
                   ![i].snap = IF IsFailure(tasks[i].err) THEN Failures
                               ELSE Successes,
                   ![i].pc = "write"]
    /\ UNCHANGED <<taskFrame, wg, sem, Successes, Failures>>

(* time.Time.Format(time.RFC3339): printed to the whole second *)
Format(t) == t \div TicksPerSecond

(* start.Sub(end), in ticks; "%fs" prints it with its sign *)
TimeTaken(start, end) == start - end

(* result := res{...}; if err != nil { result.Error = err.Error() } *)
MakeRes(start, end, host, out, err) ==
    [Host |-> host,
     StartTime |-> Format(start),
     EndTime |-> Format(end),
     TimeTaken |-> TimeTaken(start, end),
     Output |-> out,
     Error |-> IF IsFailure(err) THEN err ELSE ""]

(* mutant: the new record is put in front of the earlier ones *)
PrependRec(q, r) == <<r>> \o q

(* append(r.Failures, result) / append(r.Successes, result) *)
AppendRec(q, r) == Append(q, r)

(* r.Failures = append(r.Failures, result) / r.Successes = append(...),
   then the deferred r.mu.Unlock() *)
AddResultWrite(i) ==
    /\ proc = "running"
    /\ tasks[i].pc = "write"
    /\ LET t == tasks[i]
           rec == MakeRes(t.start, t.end, hosts[i].host, t.out, t.err)
       IN  IF IsFailure(t.err)
           THEN /\ Failures' = AppendRec(t.snap, rec)
                /\ Successes' = Successes
           ELSE /\ Successes' = AppendRec(t.snap, rec)
                /\ Failures' = Failures
    /\ mu' = IF mu = i THEN 0 ELSE mu
    /\ tasks' = [tasks EXCEPT ![i].snap = <<>>, ![i].pc = "added"]
    /\ UNCHANGED <<taskFrame, wg, sem>>

(* defer wg.Done(); in the errgroup: release the token, then wg.Done() *)
TaskDone(i) ==
    /\ proc = "running"
    /\ tasks[i].pc = "added"
    /\ wg' = wg - 1
    /\ sem' = IF ParallelLimit = 0 THEN sem ELSE sem - 1
    /\ tasks' = [tasks EXCEPT ![i].pc = "done"]
    /\ UNCHANGED <<taskFrame, Successes, Failures, mu>>

(* Plan.Close once ctx is done: close(p.stop); closing a nil or an already
   closed channel panics *)
CloseCall ==
    /\ proc = "running"
    /\ closeCalls < MaxCloseCalls
    /\ closeCalls' = closeCalls + 1
    /\ IF stop = "open"
       THEN /\ stop' = "closed"
            /\ proc' = proc
       ELSE /\ proc' = "panicked"
            /\ stop' = stop
    /\ UNCHANGED <<planVars, auxVars, hosts, ocVars, sess, listener, lk, exVars, now>>

(* listenForClose: <-p.stop returns once the channel is closed *)
ListenerWake ==
    /\ proc = "running"
    /\ listener = "waiting"
    /\ stop = "closed"
    /\ listener' = "closing"
    /\ lk' = 1
    /\ UNCHANGED <<planVars, auxVars, hosts, stop, proc, ocVars, sess, closeCalls,
                   exVars, now>>

(* mutant: the loop steps over every other handle *)
ListenerSkip(k) == k + 2

(* the index listenForClose's loop visits after k *)
ListenerAdvance(k) == k + 1

(* _ = p.hosts[i].session.Close() *)
ListenerClose ==
    /\ proc = "running"
    /\ listener = "closing"
    /\ lk <= Len(hosts)
    /\ LET s == hosts[lk].session
       IN  sess' = [sess EXCEPT ![s].st = "closed",
                                ![s].closes = sess[s].closes + 1]
    /\ lk' = ListenerAdvance(lk)
    /\ UNCHANGED <<planVars, auxVars, hosts, stop, proc, ocVars, listener, closeCalls,
                   exVars, now>>

(* listenForClose returns after its loop *)
ListenerReturn ==
    /\ proc = "running"
    /\ listener = "closing"
    /\ lk > Len(hosts)
    /\ listener' = "done"
    /\ UNCHANGED <<planVars, auxVars, hosts, stop, proc, ocVars, sess, lk, closeCalls,
                   exVars, now>>

(* Execute and its per-host goroutines *)
ExecuteStep ==
    \/ ExecuteEntry
    \/ DispatchWG
    \/ WaitWG
    \/ DispatchErrG
    \/ ReturnErrG
    \/ \E i \in Idx : TaskStart(i)
    \/ \E i \in Idx : TaskOutput(i)
    \/ \E i \in Idx : AddResultLock(i)
    \/ \E i \in Idx : AddResultWrite(i)
    \/ \E i \in Idx : TaskDone(i)

(* Execute while time passes *)
NextExec ==
    \/ Tick
    \/ ExecuteStep

SpecExec == InitExec /\ [][NextExec]_vars

(* Execute while Plan.Close and listenForClose run *)
NextCancel ==
    \/ ExecuteStep
    \/ CloseCall
    \/ ListenerWake
    \/ ListenerClose
    \/ ListenerReturn

SpecCancel == InitExec /\ [][NextCancel]_vars

----------------------------------------------------------------------------
(* main's timeout: ctx, cancel := context.WithTimeout(context.Background(),
   timeout); result, err := p.Execute(ctx) *)

(* the deadline of ctx expires: ctx.Done() is closed. main hands ctx to
   Execute only; it does not call p.Close(ctx), and Execute and its tasks do
   not read ctx *)
Deadline ==
    /\ proc = "running"
    /\ ~ctxDone
    /\ ctxDone' = TRUE
    /\ UNCHANGED <<planVars, hosts, stop, proc, ocVars, sess, listener, lk,
                   closeCalls, exVars, now, mpc, mdepth, SSHKeyPath, fsys, sgn>>

(* the steps of Execute's own goroutine *)
ExecuteMain ==
    \/ ExecuteEntry
    \/ DispatchWG
    \/ WaitWG
    \/ DispatchErrG
    \/ ReturnErrG

(* the steps of the goroutine of host i *)
Task(i) ==
    \/ TaskStart(i)
    \/ TaskOutput(i)
    \/ AddResultLock(i)
    \/ AddResultWrite(i)
    \/ TaskDone(i)

NextTimeout ==
    \/ ExecuteStep
    \/ Deadline

(* every goroutine that can run does run, every command returns, and the
   timer fires *)
FairTimeout ==
    /\ WF_vars(Deadline)
    /\ WF_vars(ExecuteMain)
    /\ \A i \in Idx : WF_vars(Task(i))

SpecTimeout == InitExec /\ [][NextTimeout]_vars /\ FairTimeout

----------------------------------------------------------------------------
(* main: return p.WriteResult(result): the Result is serialized *)

(* func (r *Result) MarshalJSON() { return json.Marshal(r) }: json.Marshal
   finds that r implements json.Marshaler and calls r.MarshalJSON(), which
   calls json.Marshal(r) again; when the stack is exhausted the runtime ends
   the process (fatal error: stack overflow) *)
MarshalJSONCall ==
    /\ proc = "running"
    /\ expc = "returned"
    /\ mpc \in {"idle", "running"}
    /\ IF mdepth < MaxStack
       THEN /\ mpc' = "running"
            /\ mdepth' = mdepth + 1
            /\ proc' = proc
       ELSE /\ mpc' = "overflow"
            /\ mdepth' = mdepth
            /\ proc' = "panicked"
    /\ UNCHANGED <<planVars, hosts, stop, ocVars, sess, listener, lk,
                   closeCalls, exVars, now, ctxDone, SSHKeyPath, fsys, sgn>>

NextWrite ==
    \/ ExecuteStep
    \/ MarshalJSONCall

SpecWrite == InitExec /\ [][NextWrite]_vars

----------------------------------------------------------------------------
(* Properties *)

N == Len(hosts)

(* the records stored on the Result *)
Records == {Successes[k] : k \in 1..Len(Successes)}
               \cup {Failures[k] : k \in 1..Len(Failures)}

(* task i's call of AddResult has returned *)
Added(i) == tasks[i].pc \in {"added", "done"}

(* the record AddResult builds from task i's call *)
ResOf(i) ==
    MakeRes(tasks[i].start, tasks[i].end, hosts[i].host, tasks[i].out,
            tasks[i].err)

(* how many entries of sequence q satisfy Host = a *)
CountHost(q, a) == Cardinality({k \in 1..Len(q) : q[k].Host = a})

(* tasks inside session.Output *)
InFlight == {i \in Idx : tasks[i].pc = "output"}

(* C1: when Execute returns on a Plan of N live handles, the Result holds
   len(Successes) + len(Failures) == N (stated as the claim states it) *)
C1_ExecuteYieldsAll ==
    expc = "returned" => Len(Successes) + Len(Failures) = N

(* C2: in bounded mode with limit L, at most L tasks are inside their
   run-and-capture call (session.Output) in any reachable state *)
C2_BoundedInFlight ==
    ParallelLimit # 0 => Cardinality(InFlight) <= ParallelLimit

(* C2 witness: limit 1, two hosts: the first command is in flight and the
   dispatch loop is held back from admitting the second *)
C2_Witness ==
    /\ ParallelLimit = 1
    /\ N = 2
    /\ expc = "errg"
    /\ exj = 2
    /\ tasks[1].pc = "output"
    /\ tasks[2].pc = "none"

(* C3: once Execute has returned, every started per-host task has completed
   (stated as the claim states it, for both modes) *)
C3_ReturnsAfterAllDone ==
    expc = "returned" => \A i \in 1..N : tasks[i].pc = "done"

(* C4: the elapsed value stored on every recorded Outcome is end - start and
   is non-negative (stated as the claim states it) *)
C4_ElapsedNonNegative ==
    /\ \A r \in Records : r.TimeTaken >= 0
    /\ \A i \in 1..N : Added(i) =>
          ResOf(i).TimeTaken = tasks[i].end - tasks[i].start

(* C5: when OpenConns has returned an error, no connection and no session
   opened during the call is still open (stated as the claim states it) *)
C5_NoLeakOnError ==
    (ocpc = "returned" /\ ocErr # NoErr) =>
        \A i \in Idx : conns[i] # "open" /\ sess[i].st # "open"

(* a handle that carries the live session opened for token i, with pty
   requested and shell started on it *)
LiveHandle(i) ==
    /\ hosts[i].session = i
    /\ hosts[i].user = Split(PlainHosts[i], "@")[1]
    /\ hosts[i].host = Split(PlainHosts[i], "@")[2]
    /\ sess[i] = LiveSess

(* C6: a call of OpenConns that ends without reporting an error leaves exactly
   one handle per token, each carrying its live session (the claim's success
   case, stated so that ending in a panic of the session setup counts as not
   delivering it) *)
C6_OpenYieldsHandles ==
    ((ocpc = "returned" /\ ocErr = NoErr)
        \/ (proc = "panicked" /\ ocpc = "setup")) =>
        /\ Len(hosts) = Len(PlainHosts)
        /\ \A i \in 1..Len(hosts) : LiveHandle(i)

(* some token of the list does not split into exactly two parts *)
HasMalformed ==
    \E k \in 1..Len(PlainHosts) : ~ValidParts(Split(PlainHosts[k], "@"))

(* C7: whenever OpenConns returns on a list that holds a malformed token, at
   any position, the error is the invalid-host error and no session is open
   (stated as the claim states it) *)
C7_MalformedRejected ==
    (ocpc = "returned" /\ HasMalformed) =>
        /\ ocErr = ErrInvalidHost
        /\ \A i \in Idx : sess[i].st # "open"

(* no step of Execute or of a task is enabled *)
Quiescent ==
    /\ expc = "returned"
    /\ \A i \in Idx : tasks[i].pc \in {"none", "done"}

(* C8: failure isolation: a host whose command returned an error gets exactly
   one Outcome, in Failures and carrying that error; every other host gets
   exactly one, in Successes; no host is left without its command run once
   nothing is left to do; and Execute returns a nil error *)
C8_FailureIsolation ==
    /\ \A i \in 1..N :
          LET a == hosts[i].host
          IN  IF Added(i)
              THEN IF tasks[i].err # NoErr
                   THEN /\ CountHost(Failures, a) = 1
                        /\ CountHost(Successes, a) = 0
                        /\ \E k \in 1..Len(Failures) :
                              /\ Failures[k].Host = a
                              /\ Failures[k].Error = tasks[i].err
                   ELSE /\ CountHost(Successes, a) = 1
                        /\ CountHost(Failures, a) = 0
              ELSE CountHost(Successes, a) + CountHost(Failures, a) = 0
    /\ expc = "returned" => execErr = NoErr
    /\ Quiescent => \A i \in 1..N : Added(i)

(* C8 witness: Execute has returned nil with one host failed and the other
   succeeded, both recorded *)
C8_Witness ==
    /\ N = 2
    /\ expc = "returned"
    /\ tasks[1].pc = "done" /\ tasks[1].err # NoErr
    /\ tasks[2].pc = "done" /\ tasks[2].err = NoErr
    /\ Len(Failures) = 1
    /\ Len(Successes) = 1

(* C9: under every interleaving of the tasks' AddResult calls, the number of
   stored records equals the number of calls that have returned, and every
   stored record is, field for field, the record of one single call *)
C9_NoLostOrMixedRecord ==
    /\ Len(Successes) + Len(Failures)
          = Cardinality({i \in 1..N : Added(i)})
    /\ \A r \in Records : \E i \in 1..N : Added(i) /\ r = ResOf(i)

(* C9 witness: the calls of two concurrent tasks went for the same sequence
   and both have returned; the second host's record arrived first *)
C9_Witness ==
    /\ N = 2
    /\ Len(Successes) = 2
    /\ Added(1) /\ Added(2)
    /\ Successes[1].Host = hosts[2].host

(* C10: no session is ever closed twice, and once the Cancellation Listener
   has run to its end after the stop signal fired, every opened session has
   been closed exactly once *)
C10_ClosedExactlyOnce ==
    /\ \A s \in Idx : sess[s].closes <= 1
    /\ listener = "done" =>
          \A s \in Idx : sess[s].st # "none" =>
              sess[s].st = "closed" /\ sess[s].closes = 1

(* C10 witness: the stop signal fired while commands were in flight: the
   listener has closed both sessions and a command is still in its call *)
C10_Witness ==
    /\ N = 2
    /\ stop = "closed"
    /\ listener = "done"
    /\ sess[1].closes = 1 /\ sess[2].closes = 1
    /\ \E i \in 1..N : tasks[i].pc = "output"

(* C11: if the timeout deadline expires while a command is in flight, then
   eventually the stop signal has fired, the listener has closed every
   session, no command is in flight and Execute has returned (stated as the
   claim states it) *)
C11_TimeoutEnforced ==
    (ctxDone /\ InFlight # {}) ~>
        /\ stop = "closed"
        /\ listener = "done"
        /\ \A s \in Idx : sess[s].st # "open"
        /\ InFlight = {}
        /\ expc = "returned"

(* C12: with an empty host list OpenConns fails with ErrNoHosts, no host is
   dialed, the Cancellation Listener is not started and Execute is never
   invoked *)
C12_NoHostsFailsFast ==
    Len(PlainHosts) = 0 =>
        /\ ocpc \in {"entry", "returned"}
        /\ ocpc = "returned" => ocErr = ErrNoHosts
        /\ dialed = <<>>
        /\ \A i \in Idx : conns[i] = "none"
        /\ listener = "none"
        /\ expc = "idle"

(* C12 witness: the run on an empty list has ended: OpenConns returned
   ErrNoHosts and main returned it *)
C12_Witness ==
    /\ Len(PlainHosts) = 0
    /\ ocpc = "returned"
    /\ ocErr = ErrNoHosts
    /\ proc = "exited"

(* C13: the serialization of the Result of a completed Execute ends by
   returning the structure: a call of MarshalJSON that is over has returned
   (stated as the claim states it) *)
C13_SerializationReturns ==
    mpc \notin {"idle", "running"} => mpc = "returned"

(* C14: whenever OpenConns has returned the no-hosts or the invalid-host
   error, no dial was attempted and no connection was opened during the call,
   wherever the malformed token stands in the list *)
C14_ConfigErrorBeforeDial ==
    (ocpc = "returned" /\ ocErr \in {ErrNoHosts, ErrInvalidHost}) =>
        /\ dialed = <<>>
        /\ \A i \in Idx : conns[i] = "none" /\ sess[i].st = "none"

(* C14 witness: OpenConns returned the invalid-host error on a list of two
   tokens that also holds a valid one *)
C14_Witness ==
    /\ ocpc = "returned"
    /\ ocErr = ErrInvalidHost
    /\ Len(PlainHosts) = 2
    /\ \E k \in 1..2 : ValidParts(Split(PlainHosts[k], "@"))


(* the scan skips this name *)
Skipped(name) == name \in IgnoreFiles \/ PublicKeyMatch(name)

(* the entries of the default directory the scan is to try as keys *)
Remaining == { k \in 1..Len(fsys.entries) : ~Skipped(fsys.entries[k].name) }

(* C15: with no explicit key path and a default directory to scan, getSigners
   hands no entry named config, known_hosts, known_hosts.old or ending in
   .pub to the key parser, and when none of the other entries holds a valid
   private key it returns ErrNoSSHKeysFound. *)
C15_ScanSkipsAndReports ==
    (sgn.outcome # "none" /\ IsStringEmpty(SSHKeyPath) /\ fsys.root = "dir") =>
        /\ \A k \in 1..Len(sgn.parsed) : ~Skipped(sgn.parsed[k])
        /\ (\A k \in Remaining : fsys.entries[k].content # "key") =>
               (sgn.outcome = "err" /\ sgn.err = ErrNoSSHKeysFound)


(* sequence q is an initial part of sequence r *)
IsPrefix(q, r) == Len(q) <= Len(r) /\ \A k \in 1..Len(q) : r[k] = q[k]

(* C16: every stored Outcome is in exactly one of the two sequences, in
   Successes if and only if its call's error was nil and in Failures if and
   only if it was not; and every step leaves the earlier entries of both
   sequences in place and in order, adding at most one entry at the end *)
C16_AppendOnlyPartition ==
    /\ [](/\ \A k \in 1..Len(Successes) : Successes[k].Error = ""
          /\ \A k \in 1..Len(Failures) : Failures[k].Error # ""
          /\ \A i \in 1..N : Added(i) =>
                /\ (tasks[i].err = NoErr) =
                      (\E k \in 1..Len(Successes) : Successes[k] = ResOf(i))
                /\ (tasks[i].err # NoErr) =
                      (\E k \in 1..Len(Failures) : Failures[k] = ResOf(i)))
    /\ [][/\ IsPrefix(Successes, Successes')
          /\ IsPrefix(Failures, Failures')
          /\ Len(Successes') + Len(Failures')
                <= Len(Successes) + Len(Failures) + 1]_vars

(* C16 witness: two calls carried an error; the second was appended behind
   the first in Failures, Successes left empty *)
C16_Witness ==
    /\ N = 2
    /\ Added(1) /\ Added(2)
    /\ Len(Failures) = 2
    /\ Len(Successes) = 0
    /\ Failures[2] = ResOf(2)


(* C17: no step of Execute or of its tasks, in either mode, changes the host
   list or any session's open/closed status; a session leaves the open
   status only by the close the Cancellation Listener's loop makes on the
   handle it is visiting *)
C17_EngineLeavesSessions ==
    /\ [][exVars' # exVars =>
            /\ hosts' = hosts
            /\ \A s \in Idx : sess'[s].st = sess[s].st]_vars
    /\ [][\A s \in Idx :
            (sess[s].st = "open" /\ sess'[s].st # "open") =>
                /\ listener = "closing"
                /\ lk <= Len(hosts)
                /\ hosts[lk].session = s
                /\ sess'[s].st = "closed"
                /\ exVars' = exVars]_vars

(* C17 witness: the first task has finished and its session was closed by
   the listener, while the second command is still running on its open
   session *)
C17_Witness ==
    /\ N = 2
    /\ tasks[1].pc = "done"
    /\ tasks[2].pc = "output"
    /\ listener = "closing"
    /\ sess[1].st = "closed"
    /\ sess[2].st = "open"


(* C18: whatever calls of Plan.Close are made, the stop channel is closed at
   most once: the process never panics on closing the channel it has already
   closed (stated as the claim states it) *)
C18_StopClosedOnce ==
    ~(proc = "panicked" /\ stop = "closed" /\ closeCalls >= 2)

(* C19: every token OpenConns accepts has a non-empty user and a non-empty
   address: no handle is built, and no address dialed, with an empty part
   (stated as the claim states it) *)
C19_AcceptedPartsNonEmpty ==
    /\ ocpc \in {"signers", "dial", "session", "setup"} =>
          (Len(parts[1]) > 0 /\ Len(parts[2]) > 0)
    /\ ocpc \in {"dial", "session", "setup"} =>
          (Len(h.user) > 0 /\ Len(h.host) > 0)
    /\ \A k \in 1..Len(dialed) : Len(dialed[k]) > 0


(* C20: in bounded mode with limit L over N hosts, when executeErrG returns
   at least N - L tasks have returned from AddResult with their record
   stored: at most L records are missing from the Result *)
C20_AtMostLimitMissing ==
    (expc = "returned" /\ ParallelLimit # 0) =>
        /\ Cardinality({i \in 1..N : Added(i)}) >= N - ParallelLimit
        /\ Len(Successes) + Len(Failures) >= N - ParallelLimit

(* C20 witness: limit 1, two hosts: executeErrG has returned with the first
   record stored and the second command still running *)
C20_Witness ==
    /\ ParallelLimit = 1
    /\ N = 2
    /\ expc = "returned"
    /\ Added(1)
    /\ tasks[2].pc = "output"
    /\ Len(Successes) + Len(Failures) = 1

====
